---- MODULE Spec2Model ----
(***************************************************************************)
(* Planet: the concurrent A* solver (AStar.h / AStar.cpp), the geometry    *)
(* predicates it calls (Shapes.cpp, Vector2.h) and the worker pool.        *)
(*                                                                         *)
(* Points are pairs of integers.  Dot and cross products of such points    *)
(* are exact in float, so the predicates are modelled exactly; EPSILON     *)
(* (0.001f) is one unit of a fixed-point scale of EpsilonDenominator.      *)
(* Magnitude (sqrtf) is modelled as floor(EpsilonDenominator * sqrt(.)),   *)
(* a fixed-point length in thousandths of a world unit.                    *)
(*                                                                         *)
(* Thread 0 is the thread that calls FindPath / AddThread / RemoveThread;  *)
(* threads 1..poolSize are the WorkerThreads of solver.threadPool, in the  *)
(* order of the vector.  The release build (no _DEBUG) is modelled.        *)
(***************************************************************************)
EXTENDS Integers, Sequences, FiniteSets, Bags, TLC

\* ------------------------------------------------------------------ bounds

\* Largest number of WorkerThreads the pool is grown to.
MaxWorkers == 1

\* Largest number of WorkerThreads the pool is grown to while every FindPath
\* call repeats the query of the empty world.
MaxPool == 2

\* Largest squared distance between two points of the modelled inputs.
MaxMagnitudeSqr == 40

\* Largest number of polygons the editor's world is grown to.
MaxPolygons == 1

\* Largest number of Application objects that exist at once.
MaxApplications == 3

\* Largest number of entries an observers vector is grown to.
MaxObservers == 3

\* Largest coordinate of a point a geometry predicate is called with directly
\* (the smallest is -1).
MaxCoordinate == 3

\* ------------------------------------------------------------------ Vector2.h

\* 1 / Constants::EPSILON: lengths and projections are compared in units of EPSILON.
EpsilonDenominator == 1000

Sub(a, b) == <<a[1] - b[1], a[2] - b[2]>>

Dot(lhs, rhs) == lhs[1] * rhs[1] + lhs[2] * rhs[2]

CrossZ(lhs, rhs) == lhs[1] * rhs[2] - lhs[2] * rhs[1]

Normal(v) == <<0 - v[2], v[1]>>

MagnitudeSqr(v) == v[1] * v[1] + v[2] * v[2]

RECURSIVE SqrtSearch(_, _, _)
\* The largest r in lo..hi with r * r <= n (lo * lo <= n is given).
SqrtSearch(n, lo, hi) ==
    IF lo >= hi THEN lo
    ELSE LET mid == (lo + hi + 1) \div 2
         IN  IF mid * mid <= n THEN SqrtSearch(n, mid, hi)
             ELSE SqrtSearch(n, lo, mid - 1)

\* sqrtf of a squared length, in units of EPSILON, tabulated once.
SqrtTable ==
    [s \in 0..MaxMagnitudeSqr |->
        SqrtSearch(s * EpsilonDenominator * EpsilonDenominator, 0,
                   (s + 1) * EpsilonDenominator)]

Magnitude(v) == SqrtTable[MagnitudeSqr(v)]

\* The vector a division of 0.0f by 0.0f fills: both components are NaN.
NotANumber == <<>>

\* Unit(): *this / Magnitude(), in units of EPSILON.
Unit(v) ==
    IF Magnitude(v) = 0 THEN NotANumber
    ELSE <<(v[1] * EpsilonDenominator * EpsilonDenominator) \div Magnitude(v),
           (v[2] * EpsilonDenominator * EpsilonDenominator) \div Magnitude(v)>>

CLOCKWISE == "CLOCKWISE"
STRAIGHT == "STRAIGHT"
COUNTERCLOCKWISE == "COUNTERCLOCKWISE"
UNDEFINED == "UNDEFINED"

DirectionOfAngle(A, B, C) ==
    LET direction == CrossZ(Sub(B, A), Sub(C, B))
    IN  IF direction > 0 THEN CLOCKWISE
        ELSE IF direction = 0 THEN STRAIGHT
        ELSE COUNTERCLOCKWISE

\* ------------------------------------------------------------------ Shapes.cpp

SetMin(S) == CHOOSE m \in S : \A x \in S : m <= x

SetMax(S) == CHOOSE m \in S : \A x \in S : m >= x

\* The vertex after vertex i of the ring: next(vertexIt), or front() at the end.
NextVertex(polygon, i) == IF i = Len(polygon) THEN polygon[1] ELSE polygon[i + 1]

\* A predecessor that does not wrap around at the first vertex.
PrevVertexClamped(polygon, i) == polygon[IF i = 1 THEN 1 ELSE i - 1]

\* The vertex before vertex i of the ring: *(found - 1), or back() at the begin.
PrevVertex(polygon, i) == IF i = 1 THEN polygon[Len(polygon)] ELSE polygon[i - 1]

\* The projections of the polygon's vertices onto normal.
Projection(polygon, normal) == {Dot(polygon[i], normal) : i \in 1..Len(polygon)}

\* InPolygon(polygon, point)
InPolygon(polygon, point) ==
    IF Len(polygon) < 3 THEN FALSE
    ELSE \A i \in 1..Len(polygon) :
            LET normal == Normal(Sub(NextVertex(polygon, i), polygon[i]))
                proj == Projection(polygon, normal)
                pointMapping == Dot(point, normal)
            IN  ~(SetMin(proj) > pointMapping \/ pointMapping > SetMax(proj))

\* A separation test on an edge normal that counts ranges within EPSILON of
\* each other as overlapping.
SeparatedOnEdgeNormalTolerant(polygon, i, a, b) ==
    LET normal == Normal(Sub(NextVertex(polygon, i), polygon[i]))
        proj == Projection(polygon, normal)
        lineProj == {Dot(a, normal), Dot(b, normal)}
    IN  \/ EpsilonDenominator * SetMin(proj) > EpsilonDenominator * SetMax(lineProj) + 1
        \/ EpsilonDenominator * SetMin(lineProj) - 1 > EpsilonDenominator * SetMax(proj)

\* The separation test of Intersect(polygon, line) on the line's own normal.
SeparatedOnLineNormal(polygon, a, b) ==
    LET normal == Normal(Sub(a, b))
        proj == Projection(polygon, normal)
        lineMapping == Dot(b, normal)
    IN  \/ EpsilonDenominator * SetMin(proj) > EpsilonDenominator * lineMapping - 1
        \/ EpsilonDenominator * lineMapping + 1 > EpsilonDenominator * SetMax(proj)

\* The separation test of Intersect(polygon, line) on the normal of edge i.
SeparatedOnEdgeNormal(polygon, i, a, b) ==
    LET normal == Normal(Sub(NextVertex(polygon, i), polygon[i]))
        proj == Projection(polygon, normal)
        lineProj == {Dot(a, normal), Dot(b, normal)}
    IN  \/ EpsilonDenominator * SetMin(proj) > EpsilonDenominator * SetMax(lineProj) - 1
        \/ EpsilonDenominator * SetMin(lineProj) + 1 > EpsilonDenominator * SetMax(proj)

\* Intersect(polygon, line) with line = {a, b}
IntersectPolygon(polygon, a, b) ==
    IF Len(polygon) < 3 THEN FALSE
    ELSE /\ ~SeparatedOnLineNormal(polygon, a, b)
         /\ \A i \in 1..Len(polygon) : ~SeparatedOnEdgeNormal(polygon, i, a, b)

\* An occlusion test that finds every segment clear.
IntersectNothing(w, a, b) == FALSE

\* Intersect(world, line) with line = {a, b}
Intersect(w, a, b) == \E k \in 1..Len(w) : IntersectPolygon(w[k], a, b)

\* The comparator GetAnglularExtrema hands to std::ranges::minmax.
AngleLess(viewPoint, a, b) == DirectionOfAngle(a, viewPoint, b) = COUNTERCLOCKWISE

\* The element of a set of one element.
TheElement(S) == CHOOSE x \in S : TRUE

RECURSIVE MinMax(_, _, _)
\* std::ranges::minmax over the first k vertices, as <<index of min, index of
\* max>>: min moves to a vertex that compares less than it, max to every vertex
\* that does not compare less than it (the leftmost smallest and the rightmost
\* largest).
MinMax(polygon, viewPoint, k) ==
    IF k = 1 THEN <<1, 1>>
    ELSE TheElement({
             <<IF AngleLess(viewPoint, polygon[k], polygon[m[1]]) THEN k ELSE m[1],
               IF AngleLess(viewPoint, polygon[k], polygon[m[2]]) THEN m[2] ELSE k>> :
             m \in {MinMax(polygon, viewPoint, k - 1)}})

\* GetAnglularExtrema(polygon, viewPoint): <<leftMost, rightMost>>
GetAnglularExtrema(polygon, viewPoint) ==
    TheElement({<<polygon[m[1]], polygon[m[2]]>> :
                   m \in {MinMax(polygon, viewPoint, Len(polygon))}})

\* ------------------------------------------------------------------ AStar.h

\* A Node that forgets to copy the parent's path.
NodeWithoutParent(point, parentPath) == <<point>>

\* Node(position, parentPath): the parent's path with position pushed back.
Node(point, parentPath) == Append(parentPath, point)

position(n) == n[Len(n)]

\* std::adjacent_difference: the first step is the first vertex itself, every
\* later step is the difference to the vertex before.
Steps(n) == [i \in 1..Len(n) |-> IF i = 1 THEN n[1] ELSE Sub(n[i], n[i - 1])]

RECURSIVE SumMagnitude(_, _)
\* std::transform_reduce over the first k steps, from 0.0f.
SumMagnitude(steps, k) ==
    IF k = 0 THEN 0 ELSE SumMagnitude(steps, k - 1) + Magnitude(steps[k])

pathLength(n) == SumMagnitude(Steps(n), Len(n))

\* f(n) = g(n) + h(n) of the fringe comparator.
FValue(n, g) == pathLength(n) + Magnitude(Sub(g, position(n)))

\* A top that may return any node of the fringe.
AnyNodes(fr, g) == BagToSet(fr)

\* The nodes std::priority_queue::top may return: those no other node precedes.
TopNodes(fr, g) ==
    {n \in BagToSet(fr) : \A m \in BagToSet(fr) : ~(FValue(n, g) > FValue(m, g))}

\* ------------------------------------------------------------------ inputs

Square == <<<<0, 0>>, <<2, 0>>, <<2, 2>>, <<0, 2>>>>

Triangle == <<<<0, 0>>, <<2, 0>>, <<0, 2>>>>

\* Two polygons of a world of more than one polygon: a wall and a triangle
\* behind it.
Wall == <<<<0, 0>>, <<1, 0>>, <<1, 2>>, <<0, 2>>>>

Wedge == <<<<2, 0>>, <<3, 1>>, <<2, 2>>>>

\* The query of the empty world: the goal is visible from the start.
EmptyWorldQuery == [world |-> <<>>, start |-> <<0 - 1, 1>>, goal |-> <<3, 1>>]

\* The (world, startingPosition, goal) triples FindPath is called with.
Queries ==
    { [world |-> <<Square>>, start |-> <<0 - 1, 1>>, goal |-> <<3, 1>>],
      [world |-> <<Square>>, start |-> <<0 - 1, 1>>, goal |-> <<3, 3>>],
      [world |-> <<Square>>, start |-> <<0 - 1, 1>>, goal |-> <<1, 1>>],
      [world |-> <<Square>>, start |-> <<0 - 1, 0>>, goal |-> <<3, 0>>],
      [world |-> <<Square>>, start |-> <<0 - 1, 1>>, goal |-> <<0 - 1, 3>>],
      [world |-> <<Square>>, start |-> <<0 - 1, 1>>, goal |-> <<0 - 1, 1>>],
      EmptyWorldQuery }

\* ------------------------------------------------------------------ state

VARIABLES
    world,            \* Solver::world
    goal,             \* Solver::goal
    completePath,     \* Solver::completePath: <<>> (nullopt) or <<node>>
    discoveredNodes,  \* Solver::discoveredNodes
    fringe,           \* Solver::fringe, a bag of nodes
    poolSize,         \* solver.threadPool.size()
    alive,            \* WorkerThread::alive, per worker
    beginSignal,      \* WorkerThread::beginSignal, per worker
    completeSignal,   \* WorkerThread::completeSignal, per worker
    pc,               \* where each thread stands
    node,             \* Run's local node, per thread: <<>> or <<node>>
    todo,             \* the successors one expansion still has to Discover, per thread
    next,             \* the worker the caller's for_each over threadPool stands at
    startingPosition, \* FindPath's argument
    result,           \* what the last FindPath returned
    lastCall,         \* the last call the caller made
    runs,             \* how often each thread entered Run since the last FindPath call
    saved,            \* the pool as AddThread found it, while the pool is only resized
    pin,              \* <<>>, or <<q>> when every FindPath call repeats the query q
    debug,            \* _DEBUG is defined in the build
    probe,            \* <<>>, or the arguments of the last call of a geometry predicate
    verdict,          \* what that call gave: "none", "true", "false" or "throw"
    prev,             \* <<>>, or the thread count and length of the last pinned FindPath
    appWorld,         \* Application::world
    currentShape,     \* Application::currentShape
    selectedIndex,    \* Application::selectedIndex: <<>> (nullopt) or <<index>>
    direction,        \* Application::direction
    planet,           \* Application::planet
    path,             \* Application::path
    velocityUnit,     \* Application::velocityUnit, in units of EPSILON
    handler,          \* the handler that waits for FindPath to return, or "none"
    constructed,      \* the Application objects that exist
    screen,           \* Application::screen, per object: TRUE unless nullptr
    keyboard,         \* Application::keyboard, per object: TRUE unless nullptr
    mouse,            \* Application::mouse, per object: TRUE unless nullptr
    observers         \* the observers of Screen::Renderer, Keyboard and Mouse

solverVars == <<world, goal, completePath, discoveredNodes, fringe>>
poolVars == <<poolSize, alive, beginSignal, completeSignal>>
threadVars == <<pc, node, todo, next>>
historyVars == <<startingPosition, result, lastCall, runs, saved, pin, prev>>
geometryVars == <<debug, probe, verdict>>
editorVars ==
    <<appWorld, currentShape, selectedIndex, direction, planet, path, velocityUnit, handler>>
observerVars == <<constructed, screen, keyboard, mouse, observers>>
vars ==
    <<solverVars, poolVars, threadVars, historyVars, geometryVars, editorVars, observerVars>>

Threads == 0..MaxPool

\* The places an Application object can be at; main's application is at 1.
Applications == 1..MaxApplications
Workers == 1..MaxPool

\* How far AddThread grows the pool.
PoolLimit == IF pin = <<EmptyWorldQuery>> THEN MaxPool ELSE MaxWorkers

\* A ThreadCount that leaves out the calling thread.
ThreadCountWithoutCaller == poolSize

\* ThreadCount()
ThreadCount == poolSize + 1

\* The state a WorkerThread's members are constructed with.
InitCommon ==
    /\ world = <<>>
    /\ goal = <<0, 0>>
    /\ completePath = <<>>
    /\ discoveredNodes = {}
    /\ fringe = EmptyBag
    /\ poolSize = 0
    /\ alive = [t \in Workers |-> TRUE]
    /\ beginSignal = [t \in Workers |-> 0]
    /\ completeSignal = [t \in Workers |-> 0]
    /\ pc = [t \in Threads |-> IF t = 0 THEN "idle" ELSE "none"]
    /\ node = [t \in Threads |-> <<>>]
    /\ todo = [t \in Threads |-> <<>>]
    /\ next = 1
    /\ startingPosition = <<0, 0>>
    /\ result = <<>>
    /\ lastCall = "none"
    /\ runs = [t \in Threads |-> 0]
    /\ saved = <<>>
    /\ prev = <<>>
    /\ appWorld = <<>>
    /\ currentShape = <<>>
    /\ selectedIndex = <<>>
    /\ direction = UNDEFINED
    /\ planet = <<0, 0>>
    /\ path = <<>>
    /\ velocityUnit = <<0, 0>>
    /\ handler = "none"
    /\ constructed = {1}
    /\ screen = [a \in Applications |-> a = 1]
    /\ keyboard = [a \in Applications |-> a = 1]
    /\ mouse = [a \in Applications |-> a = 1]
    /\ observers = [renderer |-> <<1>>, keyboard |-> <<1>>, mouse |-> <<1>>]

\* The release build, and no geometry predicate is called directly.
NoProbe == debug = FALSE /\ probe = <<>> /\ verdict = "none"

Init == InitCommon /\ pin = <<>> /\ NoProbe

\* ------------------------------------------------------------------ Solver::Run

\* A Run that discovers the goal from every node, visible or not.
GoalAlwaysVisible(w, n, g) == TRUE

\* Line 170: the goal is discovered from a node when no polygon is in between.
GoalVisible(w, n, g) == ~Intersect(w, position(n), g)

\* An extremum test that finds every extremum visible.
ExtremumAlwaysVisible(w, n, vertex) == TRUE

\* Lines 202, 205: an angular extremum is discovered when no polygon is in between.
ExtremumVisible(w, n, vertex) == ~Intersect(w, position(n), vertex)

\* Lines 176-177: std::find_if, the first index at which the node's position is a
\* vertex of the polygon, or 0 for polygon.vertices.end().
Found(polygon, n) ==
    LET at == {i \in 1..Len(polygon) : polygon[i] = position(n)}
    IN  IF at = {} THEN 0 ELSE SetMin(at)

\* Lines 199-207: the extrema of the polygon that Run discovers from the node,
\* the leftmost before the rightmost.
VisibleExtrema(w, polygon, n) ==
    SelectSeq(GetAnglularExtrema(polygon, position(n)),
              LAMBDA vertex : ExtremumVisible(w, n, vertex))

RECURSIVE NodesOf(_, _)
\* One Node(vertex, node) for each of the vertices, in order.
NodesOf(vertices, n) ==
    IF vertices = <<>> THEN <<>>
    ELSE <<Node(Head(vertices), n)>> \o NodesOf(Tail(vertices), n)

\* An expansion that treats a polygon the node stands on like any other.
PolygonSuccessorsByExtrema(w, polygon, n) == NodesOf(VisibleExtrema(w, polygon, n), n)

\* Lines 178-209: the nodes one polygon makes Run pass to Discover, in order.
PolygonSuccessors(w, polygon, n) ==
    IF Found(polygon, n) /= 0
    THEN NodesOf(<<PrevVertex(polygon, Found(polygon, n)),
                   NextVertex(polygon, Found(polygon, n))>>, n)
    ELSE NodesOf(VisibleExtrema(w, polygon, n), n)

RECURSIVE WorldSuccessors(_, _, _)
\* Lines 175-210: std::for_each over the first k polygons of the world.
WorldSuccessors(w, k, n) ==
    IF k = 0 THEN <<>>
    ELSE WorldSuccessors(w, k - 1, n) \o PolygonSuccessors(w, w[k], n)

\* Lines 169-210: every node Run passes to Discover for the node n, in order.
Successors(w, g, n) ==
    (IF GoalVisible(w, n, g) THEN <<Node(g, n)>> ELSE <<>>) \o WorldSuccessors(w, Len(w), n)

\* Line 158: the pass stops on a node that is no shorter than the complete path.
Done(n, complete) == pathLength(n) >= pathLength(complete)

\* A Discover that returns early when the stored node is longer.
LongerDiscovered(stored, n) == pathLength(stored) > pathLength(n)

\* A Discover that never finds its candidate discovered.
NeverDiscovered(stored, n) == FALSE

\* Line 127: Discover returns early when the stored node is shorter.
AlreadyDiscovered(stored, n) == pathLength(stored) < pathLength(n)

\* Where a thread goes when Run returns: the caller to the acquire loop of Solve
\* (or past it with an empty pool), a worker to completeSignal.release().
AfterRun(t) ==
    IF t = 0 THEN (IF poolSize = 0 THEN "cleanup" ELSE "acquire") ELSE "signal"

\* Lines 163-172: after the Done test a thread either writes completePath or
\* goes on to discover the successors of its node.
Expand(t, n) ==
    /\ todo' = [todo EXCEPT ![t] = Successors(world, goal, n)]
    /\ node' = [node EXCEPT ![t] = IF todo'[t] = <<>> THEN <<>> ELSE <<n>>]
    /\ pc' = [pc EXCEPT ![t] = IF todo'[t] = <<>> THEN "pop" ELSE "discover"]

AfterDone(t, n) ==
    IF position(n) = goal
    THEN /\ pc' = [pc EXCEPT ![t] = "complete"]
         /\ UNCHANGED <<node, todo>>
    ELSE Expand(t, n)

\* Lines 141-149, 153: AqcuireNextNodeInFringe under fringeMutex; Run returns
\* when the fringe is empty.
Acquire(t) ==
    /\ pc[t] = "pop"
    /\ IF fringe = EmptyBag
       THEN /\ pc' = [pc EXCEPT ![t] = AfterRun(t)]
            /\ next' = IF t = 0 THEN 1 ELSE next
            /\ UNCHANGED <<fringe, node>>
       ELSE \E top \in TopNodes(fringe, goal) :
                /\ fringe' = fringe (-) SetToBag({top})
                /\ node' = [node EXCEPT ![t] = <<top>>]
                /\ pc' = [pc EXCEPT ![t] = "done"]
                /\ next' = next
    /\ UNCHANGED <<world, goal, completePath, discoveredNodes, poolVars, todo, historyVars>>
    /\ UNCHANGED <<geometryVars, editorVars, observerVars>>

\* Line 156: if (completePath), read without pathMutex.
DoneCheck(t) ==
    /\ pc[t] = "done"
    /\ IF completePath /= <<>>
       THEN /\ pc' = [pc EXCEPT ![t] = "compare"]
            /\ UNCHANGED <<node, todo>>
       ELSE AfterDone(t, node[t][1])
    /\ UNCHANGED <<solverVars, poolVars, next, historyVars>>
    /\ UNCHANGED <<geometryVars, editorVars, observerVars>>

\* Lines 157-160: the comparison under pathMutex, and the break.
DoneCompare(t) ==
    /\ pc[t] = "compare"
    /\ IF Done(node[t][1], completePath[1])
       THEN /\ pc' = [pc EXCEPT ![t] = AfterRun(t)]
            /\ node' = [node EXCEPT ![t] = <<>>]
            /\ next' = IF t = 0 THEN 1 ELSE next
            /\ todo' = todo
       ELSE /\ AfterDone(t, node[t][1])
            /\ next' = next
    /\ UNCHANGED <<solverVars, poolVars, historyVars>>
    /\ UNCHANGED <<geometryVars, editorVars, observerVars>>

\* Lines 164-167: completePath = node under pathMutex; the node is then expanded.
SetCompletePath(t) ==
    /\ pc[t] = "complete"
    /\ completePath' = <<node[t][1]>>
    /\ Expand(t, node[t][1])
    /\ UNCHANGED <<world, goal, discoveredNodes, fringe, poolVars, next, historyVars>>
    /\ UNCHANGED <<geometryVars, editorVars, observerVars>>

\* What follows the Discover call for the head of todo.
Discovered(t) ==
    /\ todo' = [todo EXCEPT ![t] = Tail(@)]
    /\ node' = [node EXCEPT ![t] = IF todo'[t] = <<>> THEN <<>> ELSE @]
    /\ pc' = [pc EXCEPT ![t] = IF todo'[t] = <<>> THEN "pop" ELSE "discover"]

\* Lines 124-135: the discovered-set half of Discover, under discoveredMutex.
Discover(t) ==
    /\ pc[t] = "discover"
    /\ LET n == Head(todo[t])
           same == {d \in discoveredNodes : position(d) = position(n)}
       IN  IF \E d \in same : AlreadyDiscovered(d, n)
           THEN /\ Discovered(t)
                /\ UNCHANGED discoveredNodes
           ELSE /\ discoveredNodes' = (discoveredNodes \ same) \cup {n}
                /\ pc' = [pc EXCEPT ![t] = "push"]
                /\ UNCHANGED <<node, todo>>
    /\ UNCHANGED <<world, goal, completePath, fringe, poolVars, next, historyVars>>
    /\ UNCHANGED <<geometryVars, editorVars, observerVars>>

\* Lines 136-137: the fringe half of Discover, under fringeMutex.
Push(t) ==
    /\ pc[t] = "push"
    /\ fringe' = fringe (+) SetToBag({Head(todo[t])})
    /\ Discovered(t)
    /\ UNCHANGED <<world, goal, completePath, discoveredNodes, poolVars, next, historyVars>>
    /\ UNCHANGED <<geometryVars, editorVars, observerVars>>

\* AStar.h lines 59-75: the mutex declared for each shared member.
MutexOf ==
    [completePath |-> "pathMutex",
     discoveredNodes |-> "discoveredMutex",
     fringe |-> "fringeMutex"]

\* The shared members the next step of a thread in Run reads or writes.
Accessed(t) ==
    CASE pc[t] \in {"pop", "push"} -> {"fringe"}
      [] pc[t] \in {"done", "compare", "complete"} -> {"completePath"}
      [] pc[t] = "discover" -> {"discoveredNodes"}
      [] OTHER -> {}

\* A Discover whose lock_guard on discoveredMutex lives to the end of the
\* function, over the push under fringeMutex.
HeldThroughDiscover(t) ==
    CASE pc[t] = "pop" -> {"fringeMutex"}
      [] pc[t] = "push" -> {"discoveredMutex", "fringeMutex"}
      [] pc[t] \in {"compare", "complete"} -> {"pathMutex"}
      [] pc[t] = "discover" -> {"discoveredMutex"}
      [] OTHER -> {}

\* The mutexes a thread in Run holds during its next step: the lock_guard of
\* lines 142, 157, 165, 125 and 136; the test of line 156 is outside every one.
Held(t) ==
    CASE pc[t] \in {"pop", "push"} -> {"fringeMutex"}
      [] pc[t] \in {"compare", "complete"} -> {"pathMutex"}
      [] pc[t] = "discover" -> {"discoveredMutex"}
      [] OTHER -> {}

\* ------------------------------------------------------------------ WorkerThread

\* Line 60: while (alive).
WorkerLoop(t) ==
    /\ t \in Workers
    /\ pc[t] = "loop"
    /\ pc' = [pc EXCEPT ![t] = IF alive[t] THEN "wait" ELSE "exited"]
    /\ UNCHANGED <<solverVars, poolVars, node, todo, next, historyVars>>
    /\ UNCHANGED <<geometryVars, editorVars, observerVars>>

\* A worker that enters Run without taking the begin signal.
WorkerBeginKeepsSignal(t) ==
    /\ t \in Workers
    /\ pc[t] = "wait"
    /\ beginSignal[t] > 0
    /\ pc' = [pc EXCEPT ![t] = IF alive[t] THEN "pop" ELSE "exited"]
    /\ runs' = [runs EXCEPT ![t] = IF alive[t] /\ @ < 2 THEN @ + 1 ELSE @]
    /\ UNCHANGED <<solverVars, poolVars, node, todo, next,
                   startingPosition, result, lastCall, saved, pin, prev>>
    /\ UNCHANGED <<geometryVars, editorVars, observerVars>>

\* Lines 63-70: beginSignal.acquire(), the alive test and the entry into Run.
WorkerBegin(t) ==
    /\ t \in Workers
    /\ pc[t] = "wait"
    /\ beginSignal[t] > 0
    /\ beginSignal' = [beginSignal EXCEPT ![t] = @ - 1]
    /\ IF alive[t]
       THEN /\ pc' = [pc EXCEPT ![t] = "pop"]
            /\ runs' = [runs EXCEPT ![t] = @ + 1]
       ELSE /\ pc' = [pc EXCEPT ![t] = "exited"]
            /\ runs' = runs
    /\ UNCHANGED <<solverVars, poolSize, alive, completeSignal, node, todo, next,
                   startingPosition, result, lastCall, saved, pin, prev>>
    /\ UNCHANGED <<geometryVars, editorVars, observerVars>>

\* A worker that goes back to the loop without releasing the complete signal.
WorkerCompleteWithoutRelease(t) ==
    /\ t \in Workers
    /\ pc[t] = "signal"
    /\ pc' = [pc EXCEPT ![t] = "loop"]
    /\ UNCHANGED <<solverVars, poolVars, node, todo, next, historyVars>>
    /\ UNCHANGED <<geometryVars, editorVars, observerVars>>

\* Line 73: completeSignal.release().
WorkerComplete(t) ==
    /\ t \in Workers
    /\ pc[t] = "signal"
    /\ completeSignal' = [completeSignal EXCEPT ![t] = @ + 1]
    /\ pc' = [pc EXCEPT ![t] = "loop"]
    /\ UNCHANGED <<solverVars, poolSize, alive, beginSignal, node, todo, next, historyVars>>
    /\ UNCHANGED <<geometryVars, editorVars, observerVars>>

\* ------------------------------------------------------------------ the pool

\* What the caller can tell of the pool between calls: its size and, per worker,
\* the flag, the two signals and whether the worker is idle.
PoolView ==
    [t \in Workers |->
        [alive |-> alive[t], beginSignal |-> beginSignal[t],
         completeSignal |-> completeSignal[t],
         at |-> IF pc[t] \in {"loop", "wait"} THEN "idle" ELSE pc[t]]]

\* AddThread(): push_back of a new WorkerThread, whose thread starts at the loop.
AddThread ==
    /\ pc[0] = "idle"
    /\ poolSize < PoolLimit
    /\ poolSize' = poolSize + 1
    /\ pc' = [pc EXCEPT ![poolSize + 1] = "loop"]
    /\ lastCall' = "AddThread"
    /\ saved' = <<[count |-> ThreadCount, pool |-> PoolView, solver |-> solverVars]>>
    /\ UNCHANGED <<solverVars, alive, beginSignal, completeSignal, node, todo, next,
                   startingPosition, result, runs, pin, prev>>
    /\ UNCHANGED <<geometryVars, editorVars, observerVars>>

\* A RemoveThread that tears down the first worker of the pool.
RemoveFirstThread ==
    /\ pc[0] = "idle"
    /\ lastCall' = "RemoveThread"
    /\ saved' = IF lastCall = "AddThread" THEN saved ELSE <<>>
    /\ IF poolSize = 0
       THEN UNCHANGED <<alive, pc>>
       ELSE /\ alive' = [alive EXCEPT ![1] = FALSE]
            /\ pc' = [pc EXCEPT ![0] = "release_dead"]
    /\ UNCHANGED <<solverVars, poolSize, beginSignal, completeSignal, node, todo, next,
                   startingPosition, result, runs, pin, prev>>
    /\ UNCHANGED <<geometryVars, editorVars, observerVars>>

\* RemoveThread(): nothing on an empty pool; else pop_back runs the destructor
\* of the last worker, which begins with alive = false (line 81).
RemoveThread ==
    /\ pc[0] = "idle"
    /\ lastCall' = "RemoveThread"
    /\ saved' = IF lastCall = "AddThread" THEN saved ELSE <<>>
    /\ IF poolSize = 0
       THEN UNCHANGED <<alive, pc>>
       ELSE /\ alive' = [alive EXCEPT ![poolSize] = FALSE]
            /\ pc' = [pc EXCEPT ![0] = "release_dead"]
    /\ UNCHANGED <<solverVars, poolSize, beginSignal, completeSignal, node, todo, next,
                   startingPosition, result, runs, pin, prev>>
    /\ UNCHANGED <<geometryVars, editorVars, observerVars>>

\* Line 82: beginSignal.release() of the destructor.
DestructorRelease ==
    /\ pc[0] = "release_dead"
    /\ beginSignal' = [beginSignal EXCEPT ![poolSize] = @ + 1]
    /\ pc' = [pc EXCEPT ![0] = "join"]
    /\ UNCHANGED <<solverVars, poolSize, alive, completeSignal, node, todo, next, historyVars>>
    /\ UNCHANGED <<geometryVars, editorVars, observerVars>>

\* A pop_back that joins the worker but leaves it in the pool.
DestructorJoinKeepsSize ==
    /\ pc[0] = "join"
    /\ pc[poolSize] = "exited"
    /\ pc' = [pc EXCEPT ![0] = "idle"]
    /\ UNCHANGED <<solverVars, poolVars, node, todo, next, historyVars>>
    /\ UNCHANGED <<geometryVars, editorVars, observerVars>>

\* Lines 83-84 and the end of pop_back: join, then the worker is gone.
DestructorJoin ==
    /\ pc[0] = "join"
    /\ pc[poolSize] = "exited"
    /\ poolSize' = poolSize - 1
    /\ alive' = [alive EXCEPT ![poolSize] = TRUE]
    /\ beginSignal' = [beginSignal EXCEPT ![poolSize] = 0]
    /\ completeSignal' = [completeSignal EXCEPT ![poolSize] = 0]
    /\ pc' = [pc EXCEPT ![0] = "idle", ![poolSize] = "none"]
    /\ UNCHANGED <<solverVars, node, todo, next, historyVars>>
    /\ UNCHANGED <<geometryVars, editorVars, observerVars>>

\* ------------------------------------------------------------------ Solver::Solve

\* FindPath, lines 88-98 of Solve: the reset and the seed; with an empty pool
\* the caller is in Run next.
FindPath ==
    /\ pc[0] = "idle"
    /\ \E q \in (IF pin = <<>> THEN Queries ELSE {pin[1]}) :
          /\ world' = q.world
          /\ goal' = q.goal
          /\ startingPosition' = q.start
          /\ fringe' = SetToBag({Node(q.start, <<>>)})
    /\ completePath' = <<>>
    /\ pc' = [pc EXCEPT ![0] = IF poolSize = 0 THEN "pop" ELSE "release"]
    /\ next' = 1
    /\ runs' = [t \in Threads |-> IF t = 0 /\ poolSize = 0 THEN 1 ELSE 0]
    /\ result' = <<>>
    /\ lastCall' = "FindPath"
    /\ saved' = <<>>
    /\ UNCHANGED <<discoveredNodes, poolVars, node, todo, pin, prev>>
    /\ UNCHANGED <<geometryVars, editorVars, observerVars>>

\* Lines 101-107: beginSignal.release() for the next worker; after the last
\* one the caller is in Run.
SolveRelease ==
    /\ pc[0] = "release"
    /\ beginSignal' = [beginSignal EXCEPT ![next] = @ + 1]
    /\ IF next = poolSize
       THEN /\ pc' = [pc EXCEPT ![0] = "pop"]
            /\ next' = 1
            /\ runs' = [runs EXCEPT ![0] = @ + 1]
       ELSE /\ next' = next + 1
            /\ UNCHANGED <<pc, runs>>
    /\ UNCHANGED <<solverVars, poolSize, alive, completeSignal, node, todo,
                   startingPosition, result, lastCall, saved, pin, prev>>
    /\ UNCHANGED <<geometryVars, editorVars, observerVars>>

\* A Solve that does not block on the complete signal.
SolveAcquireWithoutWaiting ==
    /\ pc[0] = "acquire"
    /\ completeSignal' = [completeSignal EXCEPT ![next] = IF @ > 0 THEN @ - 1 ELSE @]
    /\ IF next = poolSize
       THEN /\ pc' = [pc EXCEPT ![0] = "cleanup"]
            /\ next' = 1
       ELSE /\ next' = next + 1
            /\ pc' = pc
    /\ UNCHANGED <<solverVars, poolSize, alive, beginSignal, node, todo, historyVars>>
    /\ UNCHANGED <<geometryVars, editorVars, observerVars>>

\* Lines 110-113: completeSignal.acquire() for the next worker.
SolveAcquire ==
    /\ pc[0] = "acquire"
    /\ completeSignal[next] > 0
    /\ completeSignal' = [completeSignal EXCEPT ![next] = @ - 1]
    /\ IF next = poolSize
       THEN /\ pc' = [pc EXCEPT ![0] = "cleanup"]
            /\ next' = 1
       ELSE /\ next' = next + 1
            /\ pc' = pc
    /\ UNCHANGED <<solverVars, poolSize, alive, beginSignal, node, todo, historyVars>>
    /\ UNCHANGED <<geometryVars, editorVars, observerVars>>

\* A Solve that returns without clearing the discovered set.
SolveCleanupKeepsDiscovered ==
    /\ pc[0] = "cleanup"
    /\ fringe' = EmptyBag
    /\ pc' = [pc EXCEPT ![0] = "return"]
    /\ UNCHANGED <<world, goal, completePath, discoveredNodes, poolVars, node, todo, next,
                   historyVars>>
    /\ UNCHANGED <<geometryVars, editorVars, observerVars>>

\* Lines 116-117: discoveredNodes.clear() and fringe = {}.
SolveCleanup ==
    /\ pc[0] = "cleanup"
    /\ discoveredNodes' = {}
    /\ fringe' = EmptyBag
    /\ pc' = [pc EXCEPT ![0] = "return"]
    /\ UNCHANGED <<world, goal, completePath, poolVars, node, todo, next, historyVars>>
    /\ UNCHANGED <<geometryVars, editorVars, observerVars>>

\* Line 224: the path FindPath returns.
Returned(complete) == IF complete /= <<>> THEN complete[1] ELSE <<>>

RECURSIVE PolylineLength(_)
\* The length of a polyline, in units of EPSILON.
PolylineLength(polyline) ==
    IF Len(polyline) < 2 THEN 0
    ELSE PolylineLength(SubSeq(polyline, 1, Len(polyline) - 1))
         + Magnitude(Sub(polyline[Len(polyline)], polyline[Len(polyline) - 1]))

FindPathReturn ==
    /\ pc[0] = "return"
    /\ result' = Returned(completePath)
    /\ pc' = [pc EXCEPT ![0] = "idle"]
    /\ prev' = IF pin = <<>> THEN prev
               ELSE <<[threads |-> ThreadCount, length |-> PolylineLength(result')]>>
    /\ UNCHANGED <<solverVars, poolVars, node, todo, next,
                   startingPosition, lastCall, runs, saved, pin>>
    /\ UNCHANGED <<geometryVars, editorVars, observerVars>>

\* ------------------------------------------------------------------ specification

Next ==
    \/ AddThread
    \/ RemoveThread
    \/ DestructorRelease
    \/ DestructorJoin
    \/ FindPath
    \/ SolveRelease
    \/ SolveAcquire
    \/ SolveCleanup
    \/ FindPathReturn
    \/ \E t \in Workers : WorkerLoop(t)
    \/ \E t \in Workers : WorkerBegin(t)
    \/ \E t \in Workers : WorkerComplete(t)
    \/ \E t \in Threads : Acquire(t)
    \/ \E t \in Threads : DoneCheck(t)
    \/ \E t \in Threads : DoneCompare(t)
    \/ \E t \in Threads : SetCompletePath(t)
    \/ \E t \in Threads : Discover(t)
    \/ \E t \in Threads : Push(t)

Spec == Init /\ [][Next]_vars

\* The steps of Run, whichever thread takes them.
RunStep(t) ==
    \/ Acquire(t)
    \/ DoneCheck(t)
    \/ DoneCompare(t)
    \/ SetCompletePath(t)
    \/ Discover(t)
    \/ Push(t)

\* The steps the calling thread takes inside a call it has made.
CallerStep ==
    \/ DestructorRelease
    \/ DestructorJoin
    \/ SolveRelease
    \/ SolveAcquire
    \/ SolveCleanup
    \/ FindPathReturn
    \/ RunStep(0)

\* The steps of a worker's thread.
WorkerStep(t) ==
    \/ WorkerLoop(t)
    \/ WorkerBegin(t)
    \/ WorkerComplete(t)
    \/ RunStep(t)

\* Every thread that can take a step is scheduled eventually; the caller is
\* free never to make another call.
FairSpec ==
    /\ Init
    /\ [][Next]_vars
    /\ WF_vars(CallerStep)
    /\ \A t \in Workers : WF_vars(WorkerStep(t))

\* Every FindPath call repeats one query, and its length is remembered.
InitPinned == InitCommon /\ pin \in {<<q>> : q \in Queries} /\ NoProbe

SpecPinned == InitPinned /\ [][Next]_vars

\* The pool is grown to MaxPool workers, and every FindPath call repeats the
\* query of the empty world.
InitPool == InitCommon /\ pin = <<EmptyWorldQuery>> /\ NoProbe

FairSpecPool ==
    /\ InitPool
    /\ [][Next]_vars
    /\ WF_vars(CallerStep)
    /\ \A t \in Workers : WF_vars(WorkerStep(t))

\* The queries of worlds of two polygons, each searched by the caller alone.
WorldQueries ==
    {[world |-> w, start |-> s, goal |-> g] :
        w \in {<<Wall, Wedge>>, <<Wedge, Wall>>},
        s \in {<<0 - 1, 1>>, <<0 - 1, 0>>, <<0, 0>>, <<1, 2>>, <<1, 3>>, <<2, 3>>},
        g \in {<<3, 3>>, <<3, 0>>, <<2, 1>>, <<3, 1>>}}

InitWorlds == InitCommon /\ pin \in {<<q>> : q \in WorldQueries} /\ NoProbe

\* The calls and steps of a caller whose pool stays empty.
NextAlone ==
    \/ FindPath
    \/ RunStep(0)
    \/ SolveCleanup
    \/ FindPathReturn

SpecWorlds == InitWorlds /\ [][NextAlone]_vars

\* ------------------------------------------------------------------ Application.cpp

\* The world points the mouse is clicked at.
ClickPoints == {<<1, 0 - 1>>, <<2, 0>>, <<1, 1>>, <<3, 1>>, <<0 - 1, 1>>}

\* InPolygon(world, point): the index of the first polygon the point lies in,
\* or 0 for world.end().
InWorld(w, point) ==
    LET at == {i \in 1..Len(w) : InPolygon(w[i], point)}
    IN  IF at = {} THEN 0 ELSE SetMin(at)

\* ValidNextVertex(vertex): the line to the vertex crosses no polygon, the
\* polygon it would close holds no world vertex, not the planet and not the
\* goal, and the polygon stays convex.
ValidNextVertex(vertex) ==
    LET n == Len(currentShape)
        polygon == Append(currentShape, vertex)
    IN  IF n = 0 THEN TRUE
        ELSE IF Intersect(appWorld, currentShape[n], vertex) THEN FALSE
        ELSE IF n > 1
                /\ \/ \E j \in 1..Len(appWorld) : \E i \in 1..Len(appWorld[j]) :
                         InPolygon(polygon, appWorld[j][i])
                   \/ InPolygon(polygon, planet)
                   \/ path /= <<>> /\ InPolygon(polygon, path[Len(path)])
             THEN FALSE
        ELSE IF n > 2
                /\ \/ direction /= DirectionOfAngle(currentShape[n - 1], currentShape[n], vertex)
                   \/ direction /= DirectionOfAngle(currentShape[n], vertex, currentShape[1])
                   \/ direction /= DirectionOfAngle(vertex, currentShape[1], currentShape[2])
             THEN FALSE
        ELSE TRUE

\* AStar::FindPath(w, s, g) called by a handler: Solve's reset and seed (lines
\* 87-98); the handler goes on when the call has returned.
CallFindPath(w, s, g) ==
    /\ world' = w
    /\ goal' = g
    /\ startingPosition' = s
    /\ fringe' = SetToBag({Node(s, <<>>)})
    /\ completePath' = <<>>
    /\ pc' = [pc EXCEPT ![0] = IF poolSize = 0 THEN "pop" ELSE "release"]
    /\ next' = 1
    /\ runs' = [t \in Threads |-> IF t = 0 /\ poolSize = 0 THEN 1 ELSE 0]
    /\ result' = <<>>
    /\ lastCall' = "FindPath"
    /\ saved' = <<>>
    /\ UNCHANGED <<discoveredNodes, poolVars, node, todo, pin, prev>>

\* No handler is running.
BetweenEvents == handler = "none" /\ pc[0] = "idle"

\* OnMouseClicked(LEFT) at the world point p: select the polygon under the
\* mouse, or add p to the shape being drawn if it is a valid next vertex.
OnMouseLeft(p) ==
    /\ BetweenEvents
    /\ IF InWorld(appWorld, p) /= 0
       THEN /\ selectedIndex' = <<InWorld(appWorld, p)>>
            /\ currentShape' = <<>>
            /\ direction' = UNDEFINED
       ELSE /\ selectedIndex' = <<>>
            /\ IF ~ValidNextVertex(p)
               THEN UNCHANGED <<currentShape, direction>>
               ELSE IF Len(currentShape) = 2
               THEN /\ direction' = DirectionOfAngle(currentShape[1], currentShape[2], p)
                    /\ currentShape' = IF direction' \in {CLOCKWISE, COUNTERCLOCKWISE}
                                       THEN Append(currentShape, p)
                                       ELSE currentShape
               ELSE /\ currentShape' = Append(currentShape, p)
                    /\ direction' = direction
    /\ UNCHANGED <<appWorld, planet, path, velocityUnit, handler>>
    /\ UNCHANGED <<solverVars, poolVars, threadVars, historyVars, geometryVars, observerVars>>

\* OnMouseClicked(RIGHT) at the world point p, which lies in no polygon:
\* FindPath(world, planet, p) is called.
OnMouseRight(p) ==
    /\ BetweenEvents
    /\ InWorld(appWorld, p) = 0
    /\ CallFindPath(appWorld, planet, p)
    /\ handler' = "click"
    /\ UNCHANGED <<appWorld, currentShape, selectedIndex, direction, planet, path, velocityUnit>>
    /\ UNCHANGED <<geometryVars, observerVars>>

\* A RETURN that makes a polygon of a shape of 2 vertices too.
ShapeOfTwoAccepted ==
    /\ Len(currentShape) > 1
    /\ ~InPolygon(currentShape, planet)
    /\ path = <<>> \/ ~InPolygon(currentShape, path[Len(path)])

\* The polygon RETURN makes of the current shape is added to the world.
ShapeAccepted ==
    /\ Len(currentShape) > 2
    /\ ~InPolygon(currentShape, planet)
    /\ path = <<>> \/ ~InPolygon(currentShape, path[Len(path)])

\* OnKeyPressed(RETURN): a shape of more than 2 vertices is moved into a
\* polygon, which is added to the world unless it holds the planet or the
\* goal; with a path under way FindPath is called again.
OnKeyReturn ==
    /\ BetweenEvents
    /\ ShapeAccepted => Len(appWorld) < MaxPolygons
    /\ direction' = UNDEFINED
    /\ currentShape' = IF Len(currentShape) > 2 THEN <<>> ELSE currentShape
    /\ appWorld' = IF ShapeAccepted THEN Append(appWorld, currentShape) ELSE appWorld
    /\ IF ShapeAccepted /\ path /= <<>>
       THEN /\ CallFindPath(appWorld', planet, path[Len(path)])
            /\ handler' = "return"
       ELSE UNCHANGED <<solverVars, poolVars, threadVars, historyVars, handler>>
    /\ UNCHANGED <<selectedIndex, planet, path, velocityUnit>>
    /\ UNCHANGED <<geometryVars, observerVars>>

\* OnKeyPressed(ESCAPE)
OnKeyEscape ==
    /\ BetweenEvents
    /\ currentShape' = <<>>
    /\ direction' = UNDEFINED
    /\ selectedIndex' = <<>>
    /\ UNCHANGED <<appWorld, planet, path, velocityUnit, handler>>
    /\ UNCHANGED <<solverVars, poolVars, threadVars, historyVars, geometryVars, observerVars>>

\* OnKeyPressed(DELETE): the selected polygon is erased.
OnKeyDelete ==
    /\ BetweenEvents
    /\ selectedIndex /= <<>>
    /\ appWorld' = SubSeq(appWorld, 1, selectedIndex[1] - 1)
                      \o SubSeq(appWorld, selectedIndex[1] + 1, Len(appWorld))
    /\ selectedIndex' = <<>>
    /\ UNCHANGED <<currentShape, direction, planet, path, velocityUnit, handler>>
    /\ UNCHANGED <<solverVars, poolVars, threadVars, historyVars, geometryVars, observerVars>>

\* What velocityUnit can hold after path.vertices[1] was read past the end of
\* the vector: the unit of whatever difference the memory there gives.
OutOfRangeUnits == {Unit(v) : v \in {<<0, 0>>, <<1, 0>>, <<0, 1>>, <<0 - 1, 0 - 1>>}}

\* The handler's assignment path = AStar::FindPath(...), once the call has
\* returned, and velocityUnit = (path.vertices[1] - path.vertices[0]).Unit().
\* With fewer than 2 vertices the read is out of range: the handler goes on
\* with some value, or the process dies.
HandlerResume ==
    /\ handler \in {"click", "return"}
    /\ pc[0] = "idle"
    /\ path' = result
    /\ IF Len(result) > 1
       THEN /\ velocityUnit' = Unit(Sub(result[2], result[1]))
            /\ handler' = "none"
       ELSE \/ /\ velocityUnit' \in OutOfRangeUnits
               /\ handler' = "none"
            \/ /\ velocityUnit' = velocityUnit
               /\ handler' = "crashed"
    /\ UNCHANGED <<appWorld, currentShape, selectedIndex, direction, planet>>
    /\ UNCHANGED <<solverVars, poolVars, threadVars, historyVars, geometryVars, observerVars>>

\* Update(deltaTime) with the deltaTime that takes the planet exactly to the
\* next vertex of its path.
Update ==
    /\ BetweenEvents
    /\ Len(path) > 1
    /\ planet' = path[2]
    /\ path' = IF Len(path) = 2 THEN <<>> ELSE Tail(path)
    /\ velocityUnit' = IF Len(path) = 2 THEN <<0, 0>> ELSE Unit(Sub(path[3], path[2]))
    /\ UNCHANGED <<appWorld, currentShape, selectedIndex, direction, handler>>
    /\ UNCHANGED <<solverVars, poolVars, threadVars, historyVars, geometryVars, observerVars>>

\* The events of the editor and the steps of the searches its handlers start;
\* the pool stays empty.
NextEditor ==
    \/ \E p \in ClickPoints : OnMouseLeft(p)
    \/ \E p \in ClickPoints : OnMouseRight(p)
    \/ OnKeyReturn
    \/ OnKeyEscape
    \/ OnKeyDelete
    \/ HandlerResume
    \/ Update
    \/ RunStep(0)
    \/ SolveCleanup
    \/ FindPathReturn

SpecEditor == Init /\ [][NextEditor]_vars

\* ------------------------------------------------------------------ Application and its event sources

\* Subscribe...Event(observer): observers.push_back(observer).
Subscribe(list, observer) == Append(list, observer)

\* Detach...Event(observer): std::find, and erase of the entry when found.
Detach(list, observer) ==
    LET found == {i \in 1..Len(list) : list[i] = observer}
    IN  IF found = {} THEN list
        ELSE SubSeq(list, 1, SetMin(found) - 1) \o SubSeq(list, SetMin(found) + 1, Len(list))

\* No push_back takes an observers vector beyond MaxObservers.
RoomToSubscribe == \A source \in DOMAIN observers : Len(observers[source]) < MaxObservers

\* Application(screen, keyboard, mouse): the three pointers are set and the
\* object subscribes to the three sources.
ApplicationConstruct(this) ==
    /\ this \notin constructed
    /\ RoomToSubscribe
    /\ constructed' = constructed \cup {this}
    /\ screen' = [screen EXCEPT ![this] = TRUE]
    /\ keyboard' = [keyboard EXCEPT ![this] = TRUE]
    /\ mouse' = [mouse EXCEPT ![this] = TRUE]
    /\ observers' = [renderer |-> Subscribe(observers.renderer, this),
                     keyboard |-> Subscribe(observers.keyboard, this),
                     mouse |-> Subscribe(observers.mouse, this)]
    /\ UNCHANGED <<solverVars, poolVars, threadVars, historyVars, geometryVars, editorVars>>

\* ~Application(): the object detaches from every source it points to.
ApplicationDestroy(this) ==
    /\ this \in constructed
    /\ constructed' = constructed \ {this}
    /\ screen' = [screen EXCEPT ![this] = FALSE]
    /\ keyboard' = [keyboard EXCEPT ![this] = FALSE]
    /\ mouse' = [mouse EXCEPT ![this] = FALSE]
    /\ observers' =
          [renderer |-> IF screen[this] THEN Detach(observers.renderer, this)
                        ELSE observers.renderer,
           keyboard |-> IF keyboard[this] THEN Detach(observers.keyboard, this)
                        ELSE observers.keyboard,
           mouse |-> IF mouse[this] THEN Detach(observers.mouse, this)
                     ELSE observers.mouse]
    /\ UNCHANGED <<solverVars, poolVars, threadVars, historyVars, geometryVars, editorVars>>

\* pointer = std::exchange(other.pointer, nullptr), for a pointer of other
\* that is not null.
Exchanged(pointer, this, other) ==
    IF pointer[other]
    THEN [[pointer EXCEPT ![other] = FALSE] EXCEPT ![this] = TRUE]
    ELSE pointer

\* The body the move constructor and the move assignment share: for screen
\* and keyboard other is detached and this subscribed; for mouse other is
\* detached and then this is detached.
MoveFrom(this, other) ==
    /\ screen' = Exchanged(screen, this, other)
    /\ keyboard' = Exchanged(keyboard, this, other)
    /\ mouse' = Exchanged(mouse, this, other)
    /\ observers' =
          [renderer |-> IF screen[other]
                        THEN Subscribe(Detach(observers.renderer, other), this)
                        ELSE observers.renderer,
           keyboard |-> IF keyboard[other]
                        THEN Subscribe(Detach(observers.keyboard, other), this)
                        ELSE observers.keyboard,
           mouse |-> IF mouse[other]
                     THEN Detach(Detach(observers.mouse, other), this)
                     ELSE observers.mouse]

\* Application(Application&& other): this is a new object, whose pointers
\* start as nullptr.
MoveConstruct(this, other) ==
    /\ this \notin constructed
    /\ other \in constructed
    /\ RoomToSubscribe
    /\ constructed' = constructed \cup {this}
    /\ MoveFrom(this, other)
    /\ UNCHANGED <<solverVars, poolVars, threadVars, historyVars, geometryVars, editorVars>>

\* operator=(Application&& other)
MoveAssign(this, other) ==
    /\ this \in constructed
    /\ other \in constructed
    /\ RoomToSubscribe
    /\ constructed' = constructed
    /\ MoveFrom(this, other)
    /\ UNCHANGED <<solverVars, poolVars, threadVars, historyVars, geometryVars, editorVars>>

\* Application objects are constructed, moved and destroyed; the three event
\* sources outlive them.
NextObservers ==
    \/ \E this \in Applications : ApplicationConstruct(this)
    \/ \E this \in Applications : ApplicationDestroy(this)
    \/ \E this, other \in Applications : MoveConstruct(this, other)
    \/ \E this, other \in Applications : MoveAssign(this, other)

SpecObservers == Init /\ [][NextObservers]_vars

\* ------------------------------------------------------------------ the predicates, called directly

\* The points a predicate is called with.
ProbePoints ==
    {<<x, y>> : x \in (0 - 1)..MaxCoordinate, y \in (0 - 1)..MaxCoordinate}

\* The polygons a predicate is called with, those of fewer than 3 vertices
\* included.
ProbePolygons == {Square, Triangle, <<>>, <<<<0, 0>>>>, <<<<0, 0>>, <<2, 0>>>>}

\* A build and the arguments of one call: Intersect(world, {a, b}) with a world
\* of the one polygon, or InPolygon(polygon, a).
InitGeometry ==
    /\ InitCommon
    /\ pin = <<>>
    /\ debug \in BOOLEAN
    /\ probe \in {<<[predicate |-> f, polygon |-> polygon, a |-> a, b |-> b]>> :
                     f \in {"Intersect", "InPolygon"}, polygon \in ProbePolygons,
                     a \in ProbePoints, b \in ProbePoints}
    /\ verdict = "none"

Verdict(b) == IF b THEN "true" ELSE "false"

\* Shapes.cpp lines 68-71 and 104-106: Intersect(world, line); THROW_IF_DEBUG
\* throws in the debug build and is empty in the release build.
IntersectCall ==
    /\ verdict = "none"
    /\ probe /= <<>>
    /\ probe[1].predicate = "Intersect"
    /\ verdict' = IF debug /\ Len(probe[1].polygon) < 3 THEN "throw"
                  ELSE Verdict(Intersect(<<probe[1].polygon>>, probe[1].a, probe[1].b))
    /\ UNCHANGED <<solverVars, poolVars, threadVars, historyVars, debug, probe, editorVars,
                   observerVars>>

\* Shapes.cpp lines 39-64: InPolygon(polygon, point).
InPolygonCall ==
    /\ verdict = "none"
    /\ probe /= <<>>
    /\ probe[1].predicate = "InPolygon"
    /\ verdict' = IF debug /\ Len(probe[1].polygon) < 3 THEN "throw"
                  ELSE Verdict(InPolygon(probe[1].polygon, probe[1].a))
    /\ UNCHANGED <<solverVars, poolVars, threadVars, historyVars, debug, probe, editorVars,
                   observerVars>>

NextGeometry == IntersectCall \/ InPolygonCall

SpecGeometry == InitGeometry /\ [][NextGeometry]_vars

\* ------------------------------------------------------------------ the shortest path

\* The points a shortest path of a query can turn at: start, goal, every vertex.
RECURSIVE WorldVertices(_, _)
WorldVertices(w, k) == IF k = 0 THEN <<>> ELSE WorldVertices(w, k - 1) \o w[k]

GraphPoints(w, s, g) == <<s, g>> \o WorldVertices(w, Len(w))

\* u and v are neighbouring vertices of one polygon of the world.
Adjacent(w, u, v) ==
    \E k \in 1..Len(w) : \E i \in 1..Len(w[k]) :
        w[k][i] = u /\ (NextVertex(w[k], i) = v \/ PrevVertex(w[k], i) = v)

\* One may step from u to v: along a polygon's edge, or where no polygon is in between.
Step(w, u, v) == u /= v /\ (Adjacent(w, u, v) \/ ~Intersect(w, u, v))

\* Bellman-Ford, one round for point i: the shortest known length to it,
\* -1 while it is not reached.
Relaxed(w, points, dist, i) ==
    LET via == {dist[j] + Magnitude(Sub(points[i], points[j])) :
                    j \in {x \in 1..Len(points) :
                              dist[x] /= 0 - 1 /\ Step(w, points[x], points[i])}}
        known == via \cup (IF dist[i] = 0 - 1 THEN {} ELSE {dist[i]})
    IN  IF known = {} THEN 0 - 1 ELSE SetMin(known)

RECURSIVE RelaxRound(_, _, _, _)
RelaxRound(w, points, dist, i) ==
    IF i = 0 THEN <<>>
    ELSE Append(RelaxRound(w, points, dist, i - 1), Relaxed(w, points, dist, i))

RECURSIVE Relax(_, _, _, _)
Relax(w, points, dist, k) ==
    IF k = 0 THEN dist
    ELSE Relax(w, points, RelaxRound(w, points, dist, Len(points)), k - 1)

RECURSIVE StartDistances(_)
StartDistances(k) ==
    IF k = 0 THEN <<>> ELSE Append(StartDistances(k - 1), IF k = 1 THEN 0 ELSE 0 - 1)

\* The length of the shortest obstacle-avoiding path from s to g, -1 if there is none.
ShortestLength(w, s, g) ==
    LET points == GraphPoints(w, s, g)
    IN  IF s = g THEN 0
        ELSE Relax(w, points, StartDistances(Len(points)), Len(points))[2]

\* FindPath has returned and nothing was called since.
JustReturned == pc[0] = "idle" /\ lastCall = "FindPath"

\* ------------------------------------------------------------------ claims

\* C1: for a reachable (start, goal) the path FindPath returns is as long as the
\* shortest obstacle-avoiding path, for every pool size and interleaving.
ReturnedPathIsShortest ==
    (JustReturned /\ ShortestLength(world, startingPosition, goal) /= 0 - 1)
        => (result /= <<>>
            /\ PolylineLength(result) = ShortestLength(world, startingPosition, goal))

\* The same for a search the caller runs alone, with an empty pool.
ReturnedPathIsShortestAlone == poolSize = 0 => ReturnedPathIsShortest

\* C2: a path FindPath returns begins at start, ends at goal, and every two
\* consecutive points of it are either joined by a segment that intersects no
\* polygon or neighbouring vertices of one polygon.
ReturnedPathIsCollisionFree ==
    (JustReturned /\ result /= <<>>)
        => /\ result[1] = startingPosition
           /\ result[Len(result)] = goal
           /\ \A i \in 1..(Len(result) - 1) :
                 \/ ~Intersect(world, result[i], result[i + 1])
                 \/ Adjacent(world, result[i], result[i + 1])

\* A path around the obstacle was returned by a search a worker took part in.
ReturnedPathAroundObstacle ==
    JustReturned /\ Len(result) >= 4 /\ poolSize >= 1 /\ runs[1] = 1

\* The goal is neither the start nor a vertex, and a polygon lies between it and
\* the start and between it and every vertex.
GoalHidden ==
    LET points == GraphPoints(world, startingPosition, goal)
    IN  \A i \in 1..Len(points) :
           i /= 2 => (points[i] /= goal /\ Intersect(world, points[i], goal))

\* C3: while the goal is hidden no complete path is recorded and FindPath
\* returns the empty path; FindPath returns the complete path if there is one
\* and the empty path otherwise.
HiddenGoalGivesEmptyPath ==
    /\ (lastCall = "FindPath" /\ GoalHidden)
           => (completePath = <<>> /\ (JustReturned => result = <<>>))
    /\ JustReturned
           => /\ completePath = <<>> => result = <<>>
              /\ completePath /= <<>> => result = completePath[1]

\* A search with a worker for a goal inside the square has returned.
HiddenGoalSearched ==
    JustReturned /\ GoalHidden /\ poolSize >= 1 /\ runs[1] = 1 /\ result = <<>>

\* C4: when the segment from start to goal intersects no polygon and start is
\* not goal, FindPath returns exactly <<start, goal>>.
VisibleGoalGivesDirectPath ==
    (JustReturned /\ startingPosition /= goal
        /\ ~Intersect(world, startingPosition, goal))
        => result = <<startingPosition, goal>>

\* C5: with a fixed query and a fixed pool of at least one worker, every
\* FindPath call returns a path of the length the call before it returned.
LengthIsDeterministic ==
    [][(FindPathReturn /\ prev /= <<>> /\ poolSize >= 1
            /\ prev[1].threads = ThreadCount)
        => PolylineLength(result') = prev[1].length]_vars

InRun == {"pop", "done", "compare", "complete", "discover", "push"}

\* C6: under fair scheduling every FindPath call returns, and when it has
\* returned every worker has left Run and has had its complete signal taken; a
\* worker is in Run only while a call is in flight, and while a call is in
\* flight some thread can always take a step.
EveryFindPathReturns ==
    /\ (lastCall = "FindPath" /\ pc[0] /= "idle")
           ~> (/\ JustReturned
               /\ \A t \in Workers : pc[t] \notin InRun \cup {"signal"}
               /\ \A t \in Workers : completeSignal[t] = 0)
    /\ [](\A t \in Workers :
              pc[t] \in InRun => lastCall = "FindPath" /\ pc[0] /= "idle")
    /\ [](pc[0] /= "idle" => ENABLED (CallerStep \/ \E t \in Workers : WorkerStep(t)))

\* The caller has taken the complete signal of a worker that ran a pass.
WorkerPassAcquired ==
    pc[0] = "cleanup" /\ poolSize >= 1 /\ runs[1] = 1 /\ completePath /= <<>>

\* C7: when Solve clears the discovered set and the fringe, and when FindPath
\* returns, every pool worker has run its pass, has left Run and has had its
\* complete signal taken.
WorkersDoneBeforeCleanup ==
    (pc[0] \in {"cleanup", "return"} \/ JustReturned)
        => \A t \in 1..poolSize :
              /\ pc[t] \in {"loop", "wait"}
              /\ runs[t] = 1
              /\ completeSignal[t] = 0

\* Solve is about to clear the sets of a search a worker took part in.
CleanupAfterWorker ==
    pc[0] = "cleanup" /\ poolSize >= 1 /\ discoveredNodes /= {}

\* C8: in a FindPath call no thread enters Run twice, the caller enters Run
\* only after the begin signal of every pool worker was released, and when the
\* call returns the caller and every pool worker have entered Run exactly once.
RunOncePerThread ==
    lastCall = "FindPath"
        => /\ \A t \in Threads : runs[t] <= 1
           /\ \A t \in Threads : t > poolSize => runs[t] = 0
           /\ runs[0] = 1 => \A t \in 1..poolSize : beginSignal[t] = 1 \/ runs[t] = 1
           /\ JustReturned => \A t \in 0..poolSize : runs[t] = 1

\* A call with a worker in the pool has returned.
ReturnedWithWorker ==
    JustReturned /\ poolSize >= 1 /\ runs[0] = 1 /\ runs[1] = 1

\* C9: once RemoveThread has returned right after AddThread, ThreadCount is
\* what it was before the two calls, and the pool and the solver are as
\* AddThread found them (the same workers, idle, with both signals at 0), so
\* that a FindPath issued next starts from the state it would have started from.
AddRemoveRestoresPool ==
    (pc[0] = "idle" /\ lastCall = "RemoveThread" /\ saved /= <<>>)
        => /\ ThreadCount = saved[1].count
           /\ PoolView = saved[1].pool
           /\ solverVars = saved[1].solver

\* RemoveThread has returned right after AddThread.
AddThenRemoveDone ==
    pc[0] = "idle" /\ lastCall = "RemoveThread" /\ saved /= <<>>

\* The workers whose thread exists and has not left its loop for good.
LiveWorkers == {t \in Workers : pc[t] \notin {"none", "exited"}}

\* C10: between calls ThreadCount is the number of live pool workers plus 1,
\* hence at least 1; RemoveThread on an empty pool changes nothing of the
\* solver, the pool or the threads.
ThreadCountIsWorkersPlusOne ==
    /\ [](pc[0] = "idle" => (ThreadCount = Cardinality(LiveWorkers) + 1 /\ ThreadCount >= 1))
    /\ [][(RemoveThread /\ poolSize = 0) => UNCHANGED <<solverVars, poolVars, threadVars>>]_vars

\* RemoveThread has returned on a pool that was never grown.
RemovedFromEmptyPool ==
    pc[0] = "idle" /\ lastCall = "RemoveThread" /\ saved = <<>> /\ poolSize = 0
        /\ pc[1] = "none"

\* The caller is inside the pop_back of RemoveThread.
Removing == pc[0] \in {"release_dead", "join"}

\* C11: RemoveThread tears down the last worker of the pool: while it runs,
\* that worker's flag is cleared and every other worker is alive, idle and
\* has both signals at 0; its begin signal is released; a worker whose flag is
\* cleared never enters Run and never releases its complete signal;
\* RemoveThread returns only once that worker has exited, with the pool one
\* shorter and the other workers as they were; and it does return.
RemoveThreadTearsDownLastWorker ==
    /\ [](Removing =>
            /\ ~alive[poolSize]
            /\ \A t \in 1..(poolSize - 1) :
                  /\ alive[t]
                  /\ pc[t] \in {"loop", "wait"}
                  /\ beginSignal[t] = 0
                  /\ completeSignal[t] = 0)
    /\ [](\A t \in Workers :
            ~alive[t] => (pc[t] \in {"loop", "wait", "exited"} /\ completeSignal[t] = 0))
    /\ [][(pc[0] = "release_dead" /\ pc'[0] /= "release_dead")
            => beginSignal'[poolSize] = beginSignal[poolSize] + 1]_vars
    /\ [][Removing => (runs' = runs /\ completeSignal' = completeSignal)]_vars
    /\ [][(Removing /\ pc'[0] = "idle")
            => /\ pc[poolSize] = "exited"
               /\ poolSize' = poolSize - 1
               /\ \A t \in 1..poolSize' :
                     /\ alive'[t] = alive[t]
                     /\ beginSignal'[t] = beginSignal[t]
                     /\ pc'[t] \in {"loop", "wait"}]_vars
    /\ (lastCall = "RemoveThread" /\ pc[0] /= "idle") ~> (pc[0] = "idle")

\* RemoveThread has returned after tearing down the second of two workers.
SecondWorkerRemoved ==
    /\ pc[0] = "idle" /\ lastCall = "RemoveThread"
    /\ saved /= <<>> /\ saved[1].count = 2
    /\ poolSize = 1 /\ pc[1] \in {"loop", "wait"} /\ pc[2] = "none"

\* C12: when Solve has reset the solver and seeded the fringe, and when it
\* is about to release the first begin signal, the discovered set is empty,
\* there is no complete path and the fringe holds exactly the node <<start>>,
\* whatever an earlier call left; a complete path was recorded by the call in
\* flight (it runs from its start to its goal), and it is what FindPath returns.
SolveStartsClean ==
    /\ [][FindPath =>
            /\ discoveredNodes' = {}
            /\ completePath' = <<>>
            /\ fringe' = SetToBag({<<startingPosition'>>})]_vars
    /\ []((pc[0] = "release" /\ next = 1) =>
            /\ discoveredNodes = {}
            /\ completePath = <<>>
            /\ fringe = SetToBag({<<startingPosition>>}))
    /\ []((lastCall = "FindPath" /\ completePath /= <<>>) =>
            /\ completePath[1][1] = startingPosition
            /\ position(completePath[1]) = goal)
    /\ [](JustReturned => result = Returned(completePath))

\* Solve is about to release the begin signals of a call that follows a call
\* which returned a path.
SecondCallSeeded ==
    /\ pc[0] = "release" /\ next = 1 /\ lastCall = "FindPath"
    /\ prev /= <<>> /\ prev[1].length > 0

\* The query of the concrete scenario: the square between (-1,1) and (3,1).
SquareQuery == [world |-> <<Square>>, start |-> <<0 - 1, 1>>, goal |-> <<3, 1>>]

\* FindPath has returned from the query of the concrete scenario.
SquareQueryReturned ==
    /\ JustReturned
    /\ world = SquareQuery.world
    /\ startingPosition = SquareQuery.start
    /\ goal = SquareQuery.goal

SeedIsCompletePath ==
    (lastCall = "FindPath" /\ startingPosition = goal)
        => /\ completePath /= <<>> => completePath[1] = <<startingPosition>>
           /\ JustReturned => completePath /= <<>>

\* C14: when start equals goal the node <<start>> is recorded as the complete
\* path, and its pathLength is 0.
SeedPathLengthIsZero ==
    /\ SeedIsCompletePath
    /\ (lastCall = "FindPath" /\ startingPosition = goal /\ completePath /= <<>>)
           => pathLength(completePath[1]) = 0

\* The axes Intersect(polygon, {a, b}) tests: the normal of the line and the
\* normal of every edge.
TestedAxes(polygon, a, b) ==
    {Normal(Sub(a, b))}
        \cup {Normal(Sub(NextVertex(polygon, i), polygon[i])) : i \in 1..Len(polygon)}

\* On the axis, the range of the segment comes within EPSILON of the range of
\* the polygon.
ComesWithinEpsilon(polygon, a, b, axis) ==
    LET proj == Projection(polygon, axis)
        lineProj == {Dot(a, axis), Dot(b, axis)}
    IN  /\ EpsilonDenominator * SetMax(lineProj) >= EpsilonDenominator * SetMin(proj) - 1
        /\ EpsilonDenominator * SetMin(lineProj) <= EpsilonDenominator * SetMax(proj) + 1

\* On the axis, the range of the segment reaches at least EPSILON into the
\* range of the polygon.
OverlapsByEpsilon(polygon, a, b, axis) ==
    LET proj == Projection(polygon, axis)
        lineProj == {Dot(a, axis), Dot(b, axis)}
    IN  /\ EpsilonDenominator * SetMax(lineProj) >= EpsilonDenominator * SetMin(proj) + 1
        /\ EpsilonDenominator * SetMin(lineProj) <= EpsilonDenominator * SetMax(proj) - 1

\* Intersect was called with a polygon of at least 3 vertices and has answered.
IntersectAnswered ==
    /\ probe /= <<>>
    /\ probe[1].predicate = "Intersect"
    /\ Len(probe[1].polygon) >= 3
    /\ verdict /= "none"

\* C15: Intersect answers 'intersecting' for every segment whose range comes
\* within EPSILON of the polygon's range on every tested axis.
IntersectIsEpsilonTolerant ==
    (IntersectAnswered
        /\ \A axis \in TestedAxes(probe[1].polygon, probe[1].a, probe[1].b) :
              ComesWithinEpsilon(probe[1].polygon, probe[1].a, probe[1].b, axis))
        => verdict = "true"

\* C15, as the code has it: Intersect answers 'intersecting' exactly for the
\* segments whose range reaches at least EPSILON into the polygon's range on
\* every tested axis; a segment that only touches the polygon is clear.
IntersectNeedsEpsilonOverlap ==
    IntersectAnswered
        => (verdict = "true"
              <=> \A axis \in TestedAxes(probe[1].polygon, probe[1].a, probe[1].b) :
                     OverlapsByEpsilon(probe[1].polygon, probe[1].a, probe[1].b, axis))

\* Intersect has found the segment from (-1,-1) to (0,0), which touches the
\* square at its vertex (0,0), clear.
GrazingSegmentFoundClear ==
    /\ IntersectAnswered
    /\ probe[1].polygon = Square
    /\ probe[1].a = <<0 - 1, 0 - 1>>
    /\ probe[1].b = <<0, 0>>
    /\ verdict = "false"

\* C16: a predicate called with a polygon of fewer than 3 vertices signals an
\* error in every build and never answers with an ordinary boolean.
MalformedPolygonIsSignalled ==
    (probe /= <<>> /\ Len(probe[1].polygon) < 3 /\ verdict /= "none")
        => verdict = "throw"

\* C17: completePath only ever holds a node at the goal, and within a query it
\* is replaced only by a node of strictly smaller pathLength.
CompletePathOnlyImproves ==
    /\ [](completePath /= <<>> => position(completePath[1]) = goal)
    /\ [][(completePath /= <<>> /\ completePath' /= <<>> /\ completePath' /= completePath)
            => pathLength(completePath'[1]) < pathLength(completePath[1])]_vars

\* C18: a thread in Run reads or writes completePath, the fringe and the
\* discovered set only while it holds the mutex of that member.
SharedMembersAccessedUnderMutex ==
    \A t \in Threads : \A member \in Accessed(t) : MutexOf[member] \in Held(t)

\* Thread t takes the discovered-set half of Discover for the head of todo[t].
DiscoverStep(t) ==
    /\ pc[t] = "discover"
    /\ <<pc[t], todo[t]>>' /= <<pc[t], todo[t]>>

\* The discovered set holds an entry for the position of n that is no longer
\* than n.
NoLongerDiscovered(n) ==
    \E d \in discoveredNodes :
        position(d) = position(n) /\ pathLength(d) <= pathLength(n)

\* C19: Discover drops a candidate, changing neither the discovered set nor the
\* fringe, when the discovered set holds an entry of its position that is no
\* longer; otherwise it stores the candidate and goes on to push it.
DiscoverDropsNoBetterCandidate ==
    [][\A t \in Threads :
          DiscoverStep(t) =>
              IF NoLongerDiscovered(Head(todo[t]))
              THEN /\ discoveredNodes' = discoveredNodes
                   /\ fringe' = fringe
                   /\ pc'[t] /= "push"
              ELSE /\ Head(todo[t]) \in discoveredNodes'
                   /\ pc'[t] = "push"]_vars

\* C20: from one state to the next the discovered set never holds, for a
\* position, an entry longer than the one it held.
DiscoveredLengthNeverIncreases ==
    [][\A d \in discoveredNodes : \A e \in discoveredNodes' :
          position(e) = position(d) => pathLength(e) <= pathLength(d)]_vars

\* A node that was stored and pushed is still in the fringe while the discovered
\* set holds a strictly shorter entry for its position: the entry was replaced.
DiscoveredEntryShortened ==
    \E n \in BagToSet(fringe) : \E d \in discoveredNodes :
        position(d) = position(n) /\ pathLength(d) < pathLength(n)

\* The pathLengths of the entries the discovered set holds for a position.
StoredLengths(S, p) == {pathLength(d) : d \in {e \in S : position(e) = p}}

GoalOnlyLast(n) == \A i \in 1..(Len(n) - 1) : n[i] /= goal

\* C22: a popped node at the goal is never expanded: no thread passes a
\* successor of such a node to Discover, and neither the discovered set nor
\* the fringe holds a node whose path has the goal before its last point.
GoalNodeIsNotExpanded ==
    lastCall = "FindPath"
        => /\ \A t \in Threads :
                 pc[t] \in {"discover", "push"} => position(node[t][1]) /= goal
           /\ \A n \in discoveredNodes \cup BagToSet(fringe) : GoalOnlyLast(n)

\* Thread t expands its node: it passes the Done test, or has written
\* completePath, and todo'[t] holds the nodes it will pass to Discover.
ExpandStep(t) ==
    /\ pc[t] \in {"done", "compare", "complete"}
    /\ pc'[t] \in {"discover", "pop"}

\* The nodes of a sequence, as a set.
Range(seq) == {seq[i] : i \in 1..Len(seq)}

\* C24: when the expanded node stands on vertex i of a polygon of k vertices,
\* vertex (i-1) mod k and vertex (i+1) mod k of that polygon are passed to
\* Discover, whatever lies in between: the predecessor of the first vertex is
\* the last one and the successor of the last vertex is the first one.
NeighboursDiscoveredWithWrapAround ==
    [][\A t \in Threads :
          ExpandStep(t) =>
              \A j \in 1..Len(world) : \A i \in 1..Len(world[j]) :
                  (i = Found(world[j], node[t][1])) =>
                      LET k == Len(world[j])
                      IN  /\ Node(world[j][((i + k - 2) % k) + 1], node[t][1])
                                \in Range(todo'[t])
                          /\ Node(world[j][(i % k) + 1], node[t][1])
                                \in Range(todo'[t])]_vars

\* A node on the first vertex of the square was expanded, and the last and the
\* second vertex are about to be passed to Discover.
FirstVertexExpanded ==
    \E t \in Threads :
        /\ pc[t] = "discover"
        /\ world = <<Square>>
        /\ goal = <<3, 3>>
        /\ position(node[t][1]) = Square[1]
        /\ todo[t] = <<Node(Square[4], node[t][1]), Node(Square[2], node[t][1])>>

\* The vertices next to vertex p on the ring of the polygon.
RingNeighbours(polygon, p) ==
    {polygon[i] : i \in {i \in 1..Len(polygon) :
        polygon[(i % Len(polygon)) + 1] = p
            \/ polygon[((i + Len(polygon) - 2) % Len(polygon)) + 1] = p}}

\* Seen from p, no vertex of the polygon lies to the left of v, or none lies to
\* its right.
Outermost(polygon, p, v) ==
    \/ \A i \in 1..Len(polygon) : CrossZ(Sub(v, p), Sub(polygon[i], p)) >= 0
    \/ \A i \in 1..Len(polygon) : CrossZ(Sub(v, p), Sub(polygon[i], p)) <= 0

\* p is a vertex of the polygon.
IsVertex(polygon, p) == \E i \in 1..Len(polygon) : polygon[i] = p

\* C23: when the expanded node stands on a vertex of some polygon, every
\* successor passed to Discover is the goal or one of the two vertices next to
\* it on such a polygon.
VertexNodeDiscoversOnlyNeighbours ==
    [][\A t \in Threads :
          (ExpandStep(t) /\ \E j \in 1..Len(world) : IsVertex(world[j], position(node[t][1])))
              => \A s \in Range(todo'[t]) :
                    \/ position(s) = goal
                    \/ \E j \in 1..Len(world) :
                          position(s) \in RingNeighbours(world[j], position(node[t][1]))]_vars

\* C23, as the code has it: the choice is made for each polygon apart: every
\* successor passed to Discover is the goal, or a ring neighbour of the node's
\* vertex on a polygon that has the node's position as a vertex, or a visible
\* outermost vertex of a polygon that does not have it as a vertex.
SuccessorsChosenPerPolygon ==
    [][\A t \in Threads :
          ExpandStep(t) =>
              \A s \in Range(todo'[t]) :
                  \/ position(s) = goal /\ ~Intersect(world, position(node[t][1]), goal)
                  \/ \E j \in 1..Len(world) :
                        IF IsVertex(world[j], position(node[t][1]))
                        THEN position(s) \in RingNeighbours(world[j], position(node[t][1]))
                        ELSE /\ IsVertex(world[j], position(s))
                             /\ Outermost(world[j], position(node[t][1]), position(s))
                             /\ ~Intersect(world, position(node[t][1]), position(s))]_vars

\* A node on a vertex of one polygon was expanded, and a vertex of the other
\* polygon, which is no vertex of the first, is about to be passed to Discover.
VertexNodeDiscoversOtherPolygon ==
    \E t \in Threads :
        /\ pc[t] = "discover"
        /\ Len(world) = 2
        /\ \E j \in 1..2 :
              /\ IsVertex(world[j], position(node[t][1]))
              /\ ~IsVertex(world[3 - j], position(node[t][1]))
              /\ ~IsVertex(world[j], position(Head(todo[t])))
              /\ IsVertex(world[3 - j], position(Head(todo[t])))
              /\ position(Head(todo[t])) /= goal

\* C25: a successor at the goal is passed to Discover only if the segment from
\* the node to the goal intersects no polygon, and a successor that is no ring
\* neighbour of the node only if the segment to it intersects no polygon; every
\* two consecutive points of a node in the fringe or the discovered set are
\* joined by a segment that intersects no polygon or are neighbouring vertices
\* of one polygon.
SuccessorsAreVisibleOrAdjacent ==
    /\ [][\A t \in Threads :
              ExpandStep(t) =>
                  \A s \in Range(todo'[t]) :
                      /\ position(s) = goal
                            => ~Intersect(world, position(node[t][1]), goal)
                      /\ (\A j \in 1..Len(world) :
                              position(s) \notin RingNeighbours(world[j], position(node[t][1])))
                            => ~Intersect(world, position(node[t][1]), position(s))]_vars
    /\ [](\A n \in discoveredNodes \cup BagToSet(fringe) :
              \A i \in 1..(Len(n) - 1) :
                  \/ ~Intersect(world, n[i], n[i + 1])
                  \/ Adjacent(world, n[i], n[i + 1]))

\* A node that stands on no vertex of a polygon was expanded, an angular
\* extremum of that polygon is hidden from it, and it is not among the nodes
\* about to be passed to Discover.
HiddenExtremumSkipped ==
    \E t \in Threads :
        /\ pc[t] = "discover"
        /\ todo[t] = Successors(world, goal, node[t][1])
        /\ \E j \in 1..Len(world) : \E i \in 1..2 :
              /\ ~IsVertex(world[j], position(node[t][1]))
              /\ Intersect(world, position(node[t][1]),
                           GetAnglularExtrema(world[j], position(node[t][1]))[i])
              /\ \A s \in Range(todo[t]) :
                    position(s) /= GetAnglularExtrema(world[j], position(node[t][1]))[i]

\* Thread t leaves Run by the break of line 159.
BoundStep(t) ==
    /\ pc[t] = "compare"
    /\ pc'[t] \notin InRun

\* Thread t has popped a node and goes on with it past the Done test.
PassStep(t) ==
    /\ pc[t] \in {"done", "compare"}
    /\ pc'[t] \in {"complete", "discover", "pop"}

\* C26: a thread stops its pass on the bound exactly when there is a complete
\* path and the node it popped is no shorter than it, and at that moment no
\* node of the fringe has an f below the pathLength of the complete path.
BoundLeavesNothingBetter ==
    [][\A t \in Threads :
          /\ BoundStep(t) =>
                /\ completePath /= <<>>
                /\ pathLength(node[t][1]) >= pathLength(completePath[1])
                /\ \A m \in BagToSet(fringe) :
                      FValue(m, goal) >= pathLength(completePath[1])
          /\ PassStep(t) =>
                \/ completePath = <<>>
                \/ pathLength(node[t][1]) < pathLength(completePath[1])]_vars

\* Thread t pops a node from the fringe.
AcquireStep(t) ==
    /\ pc[t] = "pop"
    /\ pc'[t] = "done"

\* C27: the node a pop returns is in the fringe and has the least f of its
\* nodes, the same step removes exactly one copy of it and nothing else, and
\* no step but a push, which adds one copy of one node, or the reset of a query
\* changes the fringe otherwise; so no entry is returned twice.
PopIsAtomicAndMinimal ==
    /\ [][\A t \in Threads :
              AcquireStep(t) =>
                  /\ BagIn(node'[t][1], fringe)
                  /\ \A m \in BagToSet(fringe) :
                        FValue(node'[t][1], goal) <= FValue(m, goal)
                  /\ fringe' (+) SetToBag({node'[t][1]}) = fringe]_vars
    /\ [][(fringe' /= fringe /\ ~\E t \in Threads : AcquireStep(t))
              => \/ \E t \in Threads :
                       /\ pc[t] = "push"
                       /\ fringe' = fringe (+) SetToBag({Head(todo[t])})
                 \/ FindPath
                 \/ SolveCleanup]_vars
    /\ [](\A t \in Threads : pc[t] = "pop" => node[t] = <<>>)

\* Caller and worker each hold a node they popped, the two differ, and the
\* fringe holds a node of larger f than either.
TwoThreadsPopped ==
    /\ pc[0] = "done" /\ pc[1] = "done"
    /\ node[0] /= node[1]
    /\ \E m \in BagToSet(fringe) :
          /\ FValue(m, goal) > FValue(node[0][1], goal)
          /\ FValue(m, goal) > FValue(node[1][1], goal)

\* Thread t leaves Run because it found the fringe empty.
ExhaustedStep(t) ==
    /\ pc[t] = "pop"
    /\ pc'[t] \notin InRun

\* C28: a pass ends only on the bound or when the fringe is exhausted for
\* good: a thread that leaves Run on an empty fringe does so while no other
\* thread holds a node from which it may still push.
PassEndsOnlyWhenSearchIsFinished ==
    [][\A t \in Threads :
          ExhaustedStep(t) =>
              /\ fringe = EmptyBag
              /\ \A u \in Threads \ {t} :
                    pc[u] \notin {"done", "compare", "complete", "discover", "push"}]_vars

\* The nodes the solver holds: in the fringe, in the discovered set and as the
\* complete path.
HeldNodes == discoveredNodes \cup BagToSet(fringe) \cup Range(completePath)

\* C29: a node is its parent's path followed by its point; every node the
\* solver holds has a path that begins at the start of the query, and its
\* pathLength is the sum of the distances between consecutive points of the
\* path, 0 for a path of one point.
PathLengthIsPolylineLength ==
    lastCall = "FindPath"
        => \A n \in HeldNodes :
              /\ n /= <<>>
              /\ n[1] = startingPosition
              /\ Len(n) >= 2 => n = Node(position(n), SubSeq(n, 1, Len(n) - 1))
              /\ pathLength(n) = PolylineLength(n)

\* C30: every polygon of the editor's world has at least 3 vertices, and so
\* has every polygon of a world FindPath was called with by the editor.
WorldPolygonsHaveThreeVertices ==
    /\ \A j \in 1..Len(appWorld) : Len(appWorld[j]) >= 3
    /\ \A j \in 1..Len(world) : Len(world[j]) >= 3

\* The editor has added a polygon to its world, FindPath was called with that
\* world and has given a path around the polygon.
DrawnPolygonSearched ==
    /\ BetweenEvents
    /\ appWorld /= <<>>
    /\ world = appWorld
    /\ Len(path) > 2


\* The places of a thread inside Solver::Run.
InsideRun == {"pop", "done", "compare", "complete", "discover", "push"}

\* C31: no thread ever holds two of pathMutex, discoveredMutex and fringeMutex
\* at the same time; so no thread waits for a mutex while it holds another, and
\* every thread inside Run can take its next step.
NoThreadHoldsTwoMutexes ==
    \A t \in Threads :
        /\ Cardinality(Held(t)) <= 1
        /\ pc[t] \in InsideRun => ENABLED RunStep(t)

\* Two threads are in critical sections of different mutexes at once, one of
\* them between the two halves of Discover.
TwoMutexesHeldByTwoThreads ==
    \E t, u \in Threads :
        /\ pc[t] = "push"
        /\ pc[u] \in {"discover", "compare", "complete"}
        /\ Held(t) /= {} /\ Held(u) /= {} /\ Held(t) \cap Held(u) = {}

\* C32: the count of every worker's begin signal and complete signal is 0 or 1
\* in every reachable state, and no release, the one of the destructor
\* included, is made on a signal whose count is 1 already.
SignalsAreBinary ==
    /\ [](\A t \in Workers : beginSignal[t] \in {0, 1} /\ completeSignal[t] \in {0, 1})
    /\ [][\A t \in Workers :
            /\ beginSignal'[t] > beginSignal[t] => beginSignal[t] = 0
            /\ completeSignal'[t] > completeSignal[t] => completeSignal[t] = 0]_vars

\* The destructor has released the begin signal of a worker that took part in
\* a FindPath call before.
TeardownReleasedAfterQuery ==
    /\ pc[0] = "join"
    /\ poolSize > 0
    /\ beginSignal[poolSize] = 1
    /\ runs[poolSize] = 1
    /\ result /= <<>>

\* The caller is in no FindPath call: it is between calls, or in the
\* destructor RemoveThread runs.
NoFindPathInFlight == pc[0] \in {"idle", "release_dead", "join"}

\* C33: whenever no FindPath call is in flight, every worker of the pool (but
\* the one RemoveThread is tearing down) waits for, or is about to wait for,
\* its begin signal, its two signals are at 0, and the discovered set and the
\* fringe are empty.
PoolIsQuiescentBetweenQueries ==
    NoFindPathInFlight =>
        /\ \A t \in 1..poolSize :
              alive[t] => /\ pc[t] \in {"loop", "wait"}
                          /\ beginSignal[t] = 0
                          /\ completeSignal[t] = 0
        /\ discoveredNodes = {}
        /\ fringe = EmptyBag

\* A FindPath call that a worker searched in has returned a path, and the
\* worker is back at its begin signal.
WorkerWaitsAfterQuery ==
    /\ pc[0] = "idle"
    /\ lastCall = "FindPath"
    /\ poolSize >= 1
    /\ runs[1] = 1
    /\ pc[1] = "wait"
    /\ Len(result) > 2

\* Node n of the fringe has an entry in the discovered set at its position
\* that is no longer than n.
RecordedAsDiscovered(n) ==
    \E d \in discoveredNodes :
        position(d) = position(n) /\ pathLength(d) <= pathLength(n)

\* C34: in every reachable state of a query every node of the fringe, the seed
\* included, has an entry in the discovered set at its position whose
\* pathLength is less than or equal to the node's.
FringeNodesAreDiscovered ==
    \A n \in BagToSet(fringe) : RecordedAsDiscovered(n)

\* Every node of the fringe but the seed of line 98 is recorded as discovered.
PushedNodesAreDiscovered ==
    \A n \in BagToSet(fringe) : Len(n) > 1 => RecordedAsDiscovered(n)

\* A fringe that holds a node Discover pushed.
FringeHoldsPushedNode ==
    \E n \in BagToSet(fringe) : Len(n) > 1

\* C35: after a FindPath call made by a handler (a right click, or RETURN with
\* a path under way) path.vertices[1] is read only if the returned path has at
\* least two vertices.
SecondVertexReadInRange ==
    [][HandlerResume => Len(result) >= 2]_vars

\* The out-of-range read never ends the process.
EditorOutlivesFindPath == handler /= "crashed"

\* Object a is an entry of an observers vector.
Subscribed(list, a) == \E i \in 1..Len(list) : list[i] = a

SubscribedToAll(obs, a) == \A source \in DOMAIN obs : Subscribed(obs[source], a)

SubscribedToNone(obs, a) == \A source \in DOMAIN obs : ~Subscribed(obs[source], a)

\* C36: after an Application is move-constructed or move-assigned from
\* another one that is subscribed to the screen, the keyboard and the mouse,
\* the new object is subscribed to all three and the moved-from object to none.
MoveTransfersSubscriptions ==
    [][\A this, other \in Applications :
          (/\ this /= other
           /\ SubscribedToAll(observers, other)
           /\ MoveConstruct(this, other) \/ MoveAssign(this, other))
              => /\ SubscribedToAll(observers', this)
                 /\ SubscribedToNone(observers', other)]_vars

\* The same for the screen and the keyboard alone, and for a moved-from object
\* that was subscribed once to each.
MoveTransfersScreenAndKeyboard ==
    [][\A this, other \in Applications :
          (/\ this /= other
           /\ SubscribedToAll(observers, other)
           /\ \A source \in DOMAIN observers :
                 Cardinality({i \in 1..Len(observers[source]) :
                                 observers[source][i] = other}) = 1
           /\ MoveConstruct(this, other) \/ MoveAssign(this, other))
              => /\ Subscribed(observers'.renderer, this)
                 /\ Subscribed(observers'.keyboard, this)
                 /\ SubscribedToNone(observers', other)]_vars
====
